---------------------------- MODULE Spec2Model ----------------------------
(***************************************************************************)
(* A model of cobra_fseof.fseof (src/cobra_fseof/fseof.py): the FSEOF      *)
(* scan-and-rank procedure run against a metabolic model, an optimizer and *)
(* a flux-variability capability.                                          *)
(*                                                                         *)
(* The procedure is a sequential program; pc is its position.  The two     *)
(* external capabilities (optimizer, flux_variability_analysis) are        *)
(* oracles: each call either raises or returns values drawn from a small   *)
(* set.  Fluxes the optimizer and FVA return are fixed-point integers in   *)
(* units of 5e-4; the interpolated enforced fluxes of numpy.linspace are   *)
(* exact rationals <<numerator, denominator>> in lowest terms.             *)
(***************************************************************************)
EXTENDS Integers, Sequences, FiniteSets, TLC

VARIABLES
    pc,                  \* position in fseof
    heap,                \* model objects: reference -> model state
    model,               \* the local name `model`: a reference into heap
    history,             \* undo entries of the open `with model:` block
    num_steps,           \* argument
    enforced,            \* argument, a ReactionLike; an id after line 86
    objective,           \* argument, a ReactionLike; an id after line 87
    enforced_direction,  \* argument
    enforced_frac_opt,   \* argument, a rational
    reactions,           \* argument: [some, val]; some = FALSE is None
    enforced_base,       \* local
    enforced_opt,        \* local
    scan_fluxes,         \* local: the interpolated enforced fluxes
    step,                \* local: the loop index of both loops
    step_data,           \* local: the rows of the step table
    scan_solutions,      \* local: one flux vector per scan step
    scan_data,           \* local: the scan table (a frame)
    candidates,          \* local: the target reactions
    scan_fva_results,    \* local: one FVA dict per step
    fva_data,            \* local: the ranked table (a frame)
    calls,               \* the log of calls made to the two capabilities
    outcome              \* "running", "returned", or the error raised

vars == <<pc, heap, model, history, num_steps, enforced, objective,
          enforced_direction, enforced_frac_opt, reactions, enforced_base,
          enforced_opt, scan_fluxes, step, step_data, scan_solutions,
          scan_data, candidates, scan_fva_results, fva_data, calls, outcome>>

args == <<num_steps, enforced_direction, enforced_frac_opt>>

tables == <<step_data, scan_solutions, scan_data, candidates,
            scan_fva_results, fva_data>>

-----------------------------------------------------------------------------
(* Bounds of the model.                                                    *)

\* num_steps ranges over 1..MaxSteps in the whole-procedure specification
MaxSteps == 2

\* SpecTarget: scans of 1..MaxTargetSteps steps, fluxes in -MaxFlux..MaxFlux
MaxTargetSteps == 3

MaxFlux == 3

\* SpecRank: 2..MaxRankSteps FVA steps, interval ends in 0..MaxFva
MaxRankSteps == 3

MaxFva == 2

\* SpecScan: 1..MaxScanSteps steps, bound-finding fluxes in -MaxBound..MaxBound
MaxScanSteps == 3

MaxBound == 1

-----------------------------------------------------------------------------
(* Exact rationals, for numpy.linspace and the enforced bounds.            *)

Abs(x) == IF x < 0 THEN -x ELSE x

Max(a, b) == IF a >= b THEN a ELSE b

Min(a, b) == IF a <= b THEN a ELSE b

RECURSIVE GCD(_, _)
GCD(a, b) == IF b = 0 THEN a ELSE GCD(b, a % b)

\* n/d in lowest terms with a positive denominator (d # 0)
Rat(n, d) ==
    LET s == IF d < 0 THEN -1 ELSE 1
        g == GCD(Abs(n), Abs(d))
    IN  <<(s * n) \div g, (s * d) \div g>>

RatAdd(a, b) == Rat(a[1] * b[2] + b[1] * a[2], a[2] * b[2])

RatSub(a, b) == Rat(a[1] * b[2] - b[1] * a[2], a[2] * b[2])

RatMul(a, b) == Rat(a[1] * b[1], a[2] * b[2])

RatLeq(a, b) == a[1] * b[2] <= b[1] * a[2]

-----------------------------------------------------------------------------
(* Values of the program.                                                  *)

\* a Python str naming a reaction
Str(id) == [kind |-> "str", id |-> id]

\* a cobra.Reaction object with that id
Obj(id) == [kind |-> "obj", id |-> id]

\* the set of elements of a sequence
Elems(s) == {s[i] : i \in 1..Len(s)}

\* model.reactions, in the model's order: A is an ordinary reaction, E the
\* product's demand reaction, O the biomass reaction, X an exchange
\* reaction, N a reaction whose bounds are both zero
Reactions == <<"A", "E", "O", "X", "N">>

\* rxn.boundary: demand and exchange reactions
Boundary(r) == r \in {"E", "X"}

\* the model the caller passes to fseof
CallerModel ==
    [objective |-> "A",
     direction |-> "max",
     bounds    |-> [r \in Elems(Reactions) |->
                      CASE r = "A" -> <<Rat(-1000, 1), Rat(1000, 1)>>
                        [] r = "X" -> <<Rat(-1000, 1), Rat(1000, 1)>>
                        [] r = "N" -> <<Rat(0, 1), Rat(0, 1)>>
                        [] OTHER   -> <<Rat(0, 1), Rat(1000, 1)>>]]

\* rxn.functional: not both bounds zero
Functional(m, r) == m.bounds[r] # <<Rat(0, 1), Rat(0, 1)>>

\* the reference of the caller's model object and of the copy line 77 makes
CallerRef == 1

CopyRef == 2

as_id(obj) == IF obj.kind = "str" THEN obj ELSE Str(obj.id)

\* `rxn.id not in exclude` compares a str with each element of exclude; a
\* str equals no Reaction object
default_reactions(m, exclude) ==
    SelectSeq([i \in 1..Len(Reactions) |-> Str(Reactions[i])],
              LAMBDA s : /\ s \notin Elems(exclude)
                         /\ ~Boundary(s.id)
                         /\ Functional(m, s.id))

\* a copy that is no copy: `model` stays the caller's object
ModelAlias(h) == [new |-> CallerRef, heap |-> h]

\* model.copy(): a new object with the same state; `model` is rebound to it
ModelCopy(h) == [new |-> CopyRef, heap |-> [r \in {CallerRef, CopyRef} |-> h[CallerRef]]]

-----------------------------------------------------------------------------
(* `with model:` -- setters inside the block record how to undo themselves *)
(* and leaving the block, normally or by an exception, undoes them in      *)
(* reverse order.                                                          *)

NoBounds == <<Rat(0, 1), Rat(0, 1)>>

UndoObjective(m) ==
    [attr |-> "objective", str |-> m.objective, rxn |-> "", bnd |-> NoBounds]

UndoDirection(m) ==
    [attr |-> "direction", str |-> m.direction, rxn |-> "", bnd |-> NoBounds]

UndoBounds(m, r) ==
    [attr |-> "bounds", str |-> "", rxn |-> r, bnd |-> m.bounds[r]]

Undo(m, e) ==
    CASE e.attr = "objective" -> [m EXCEPT !.objective = e.str]
      [] e.attr = "direction" -> [m EXCEPT !.direction = e.str]
      [] OTHER                -> [m EXCEPT !.bounds[e.rxn] = e.bnd]

RECURSIVE Revert(_, _)
Revert(m, hist) ==
    IF hist = <<>> THEN m
    ELSE Revert(Undo(m, hist[Len(hist)]), SubSeq(hist, 1, Len(hist) - 1))

\* the model as the block's exit leaves it
WithExit(m, hist) == Revert(m, hist)

\* what a capability sees of the model when it is called
Call(fn, m, e, rxns, ok) ==
    [fn |-> fn, objective |-> m.objective, direction |-> m.direction,
     bounds |-> m.bounds[e], rxns |-> rxns, ok |-> ok]

-----------------------------------------------------------------------------
(* Oracles.                                                                *)

\* fluxes an optimizer call may report: none, or one unit
SolverFluxes == {0, 1}

\* [minimum, maximum] intervals an FVA call may report: a point at zero, a
\* point at Tightness, or the whole interval between them
FvaIntervals ==
    {[minimum |-> 0, maximum |-> 0],
     [minimum |-> 0, maximum |-> 2],
     [minimum |-> 2, maximum |-> 2]}

\* a pandas frame: its index and its rows, in row order
Frame(index, rows) == [index |-> index, rows |-> rows]

EmptyFrame == Frame(<<>>, <<>>)

-----------------------------------------------------------------------------
(* numpy.linspace(start, stop, num): num >= 1, endpoint included.          *)

\* endpoint=False: num points of spacing (stop - start) / num
linspace_open(start, stop, num) ==
    LET stp == RatMul(RatSub(stop, start), Rat(1, num))
    IN  [i \in 1..num |-> RatAdd(RatMul(Rat(i - 1, 1), stp), start)]

linspace(start, stop, num) ==
    LET delta == RatSub(stop, start)
        stp   == IF num > 1 THEN RatMul(delta, Rat(1, num - 1)) ELSE Rat(0, 1)
    IN  [i \in 1..num |->
            IF num > 1 /\ i = num THEN stop
            ELSE IF num > 1 THEN RatAdd(RatMul(Rat(i - 1, 1), stp), start)
            ELSE RatAdd(RatMul(Rat(i - 1, 1), delta), start)]

-----------------------------------------------------------------------------
(* The state at entry to fseof.                                            *)

\* the default of enforced_frac_opt (line 35)
DefaultFraction == Rat(9, 10)

Locals0 ==
    /\ enforced_base = 0
    /\ enforced_opt = 0
    /\ scan_fluxes = <<>>
    /\ step = 0
    /\ step_data = <<>>
    /\ scan_solutions = <<>>
    /\ scan_data = EmptyFrame
    /\ candidates = <<>>
    /\ scan_fva_results = <<>>
    /\ fva_data = EmptyFrame

Init ==
    /\ pc = "copy"
    /\ heap = [r \in {CallerRef} |-> CallerModel]
    /\ model = CallerRef
    /\ history = <<>>
    /\ num_steps \in 1..MaxSteps
    /\ enforced \in {Str("E"), Obj("E")}
    /\ objective \in {Str("O"), Obj("O")}
    /\ enforced_direction \in {"max", "min"}
    /\ enforced_frac_opt = DefaultFraction
    /\ reactions \in {[some |-> FALSE, val |-> <<>>],
                      [some |-> TRUE, val |-> <<Str("X"), Obj("A")>>]}
    /\ Locals0
    /\ calls = <<>>
    /\ outcome = "running"

-----------------------------------------------------------------------------
(* Lines 77-88: the private copy, the defaults, the standardised ids.      *)

CopyModel ==
    /\ pc = "copy"
    /\ heap' = ModelCopy(heap).heap
    /\ model' = ModelCopy(heap).new
    /\ pc' = "defaults"
    /\ UNCHANGED <<history, args, enforced, objective, reactions,
                   enforced_base, enforced_opt, scan_fluxes, step, tables,
                   calls, outcome>>

DefaultKwargs ==
    /\ pc = "defaults"
    /\ reactions' =
         IF reactions.some THEN reactions
         ELSE [some |-> TRUE,
               val  |-> default_reactions(heap[model], <<enforced, objective>>)]
    /\ pc' = "standardize"
    /\ UNCHANGED <<heap, model, history, args, enforced, objective,
                   enforced_base, enforced_opt, scan_fluxes, step, tables,
                   calls, outcome>>

StandardizeArgs ==
    /\ pc = "standardize"
    /\ enforced' = as_id(enforced)
    /\ objective' = as_id(objective)
    /\ reactions' = [reactions EXCEPT !.val = [i \in 1..Len(@) |-> as_id(@[i])]]
    /\ pc' = "base"
    /\ UNCHANGED <<heap, model, history, args, enforced_base, enforced_opt,
                   scan_fluxes, step, tables, calls, outcome>>

-----------------------------------------------------------------------------
(* Lines 90-97: the two bound-finding blocks.                              *)

\* the call is made again instead of the error leaving fseof
Retry(err) ==
    /\ heap' = heap
    /\ history' = history
    /\ pc' = pc
    /\ outcome' = outcome

\* the error leaves fseof and the block's changes stay
RaiseNoRevert(err) ==
    /\ heap' = heap
    /\ history' = <<>>
    /\ pc' = "failed"
    /\ outcome' = err

\* the block's exit when the call raised: the error leaves fseof
Raise(err) ==
    /\ heap' = [heap EXCEPT ![model] = WithExit(@, history)]
    /\ history' = <<>>
    /\ pc' = "failed"
    /\ outcome' = err

BaseEnter ==
    /\ pc = "base"
    /\ heap' = [heap EXCEPT ![model].objective = objective.id]
    /\ history' = <<UndoObjective(heap[model])>>
    /\ pc' = "base_call"
    /\ UNCHANGED <<model, args, enforced, objective, reactions, enforced_base,
                   enforced_opt, scan_fluxes, step, tables, calls, outcome>>

BaseCall ==
    /\ pc = "base_call"
    /\ \E ok \in BOOLEAN :
         /\ calls' = Append(calls, Call("optimizer", heap[model], enforced.id, <<>>, ok))
         /\ IF ok
            THEN /\ \E f \in SolverFluxes : enforced_base' = f
                 /\ heap' = [heap EXCEPT ![model] = WithExit(@, history)]
                 /\ history' = <<>>
                 /\ pc' = "opt"
                 /\ UNCHANGED outcome
            ELSE /\ Raise("OptimizationError")
                 /\ UNCHANGED enforced_base
    /\ UNCHANGED <<model, args, enforced, objective, reactions, enforced_opt,
                   scan_fluxes, step, tables>>

OptEnter ==
    /\ pc = "opt"
    /\ heap' = [heap EXCEPT ![model].objective = enforced.id,
                            ![model].direction = enforced_direction]
    /\ history' = <<UndoObjective(heap[model]), UndoDirection(heap[model])>>
    /\ pc' = "opt_call"
    /\ UNCHANGED <<model, args, enforced, objective, reactions, enforced_base,
                   enforced_opt, scan_fluxes, step, tables, calls, outcome>>

OptCall ==
    /\ pc = "opt_call"
    /\ \E ok \in BOOLEAN :
         /\ calls' = Append(calls, Call("optimizer", heap[model], enforced.id, <<>>, ok))
         /\ IF ok
            THEN /\ \E f \in SolverFluxes : enforced_opt' = f
                 /\ heap' = [heap EXCEPT ![model] = WithExit(@, history)]
                 /\ history' = <<>>
                 /\ pc' = "range"
                 /\ UNCHANGED outcome
            ELSE /\ Raise("OptimizationError")
                 /\ UNCHANGED enforced_opt
    /\ UNCHANGED <<model, args, enforced, objective, reactions, enforced_base,
                   scan_fluxes, step, tables>>

-----------------------------------------------------------------------------
(* Lines 99-106: the range check and the interpolation.                    *)

\* a range check that lets an empty range through
DescendingRange(base, opt) == opt < base

\* line 100
NothingToScan(base, opt) == opt = base

CheckRange ==
    /\ pc = "range"
    /\ IF NothingToScan(enforced_base, enforced_opt)
       THEN /\ pc' = "failed"
            /\ outcome' = "ValueError"
            /\ UNCHANGED scan_fluxes
       ELSE /\ scan_fluxes' = linspace(Rat(enforced_base, 1),
                                       RatMul(enforced_frac_opt, Rat(enforced_opt, 1)),
                                       num_steps)
            /\ pc' = "scan"
            /\ UNCHANGED outcome
    /\ UNCHANGED <<heap, model, history, args, enforced, objective, reactions,
                   enforced_base, enforced_opt, step, tables, calls>>

-----------------------------------------------------------------------------
(* Lines 108-116: the scan loop.                                           *)

\* the (v, v) block both loops open at lines 109-111 and 139-141
FixEnforced(m, e, o, v) ==
    [m EXCEPT !.bounds[e] = <<v, v>>, !.objective = o]

\* the entries of solution.fluxes that fseof reads: lines 114 and 127
Fluxes(rxns, o) == {r.id : r \in Elems(rxns)} \cup {o.id}

ScanEnter ==
    /\ pc = "scan"
    /\ step < num_steps
    /\ heap' = [heap EXCEPT ![model] =
                  FixEnforced(@, enforced.id, objective.id, scan_fluxes[step + 1])]
    /\ history' = <<UndoBounds(heap[model], enforced.id), UndoObjective(heap[model])>>
    /\ pc' = "scan_call"
    /\ UNCHANGED <<model, args, enforced, objective, reactions, enforced_base,
                   enforced_opt, scan_fluxes, step, tables, calls, outcome>>

ScanCall ==
    /\ pc = "scan_call"
    /\ \E ok \in BOOLEAN :
         /\ calls' = Append(calls, Call("optimizer", heap[model], enforced.id, <<>>, ok))
         /\ IF ok
            THEN /\ \E solution \in [Fluxes(reactions.val, objective) -> SolverFluxes] :
                      /\ step_data' = Append(step_data,
                                             [enforced_flux  |-> scan_fluxes[step + 1],
                                              objective_flux |-> solution[objective.id]])
                      /\ scan_solutions' = Append(scan_solutions, solution)
                 /\ heap' = [heap EXCEPT ![model] = WithExit(@, history)]
                 /\ history' = <<>>
                 /\ step' = step + 1
                 /\ pc' = "scan"
                 /\ UNCHANGED outcome
            ELSE /\ Raise("OptimizationError")
                 /\ UNCHANGED <<step_data, scan_solutions, step>>
    /\ UNCHANGED <<model, args, enforced, objective, reactions, enforced_base,
                   enforced_opt, scan_fluxes, scan_data, candidates,
                   scan_fva_results, fva_data>>

-----------------------------------------------------------------------------
(* Lines 118-135: the step table, the scan table and the targets.          *)

RECURSIVE SeqMin(_)
SeqMin(s) == IF Len(s) = 1 THEN s[1] ELSE Min(s[1], SeqMin(Tail(s)))

RECURSIVE SeqMax(_)
SeqMax(s) == IF Len(s) = 1 THEN s[1] ELSE Max(s[1], SeqMax(Tail(s)))

\* the magnitude test alone, without the direction test
magnitude_only(vmin, vmax, flux0) == Abs(vmax) > Abs(flux0)

\* line 130
target(vmin, vmax, flux0) == (vmax * vmin >= 0) /\ (Abs(vmax) > Abs(flux0))

\* lines 127-131: one row of the scan table
ScanRow(fluxes) ==
    [target |-> target(SeqMin(fluxes), SeqMax(fluxes), fluxes[1]),
     vmin   |-> SeqMin(fluxes),
     vmax   |-> SeqMax(fluxes),
     fluxes |-> fluxes]

\* the whole index, targets or not
WholeIndex(frame) == frame.index

\* line 135: the index of the rows whose target column is true
TargetIndex(frame) ==
    LET keep == SelectSeq([i \in 1..Len(frame.index) |-> i],
                          LAMBDA i : frame.rows[i].target)
    IN  [k \in 1..Len(keep) |-> frame.index[keep[k]]]

\* lines 125-132: the scan table, one row per reaction, indexed by id
ScanTable(rxns, solutions) ==
    Frame([i \in 1..Len(rxns) |-> rxns[i].id],
          [i \in 1..Len(rxns) |->
             ScanRow([k \in 1..Len(solutions) |-> solutions[k][rxns[i].id]])])

CompileScan ==
    /\ pc = "scan"
    /\ step = num_steps
    /\ scan_data' = ScanTable(reactions.val, scan_solutions)
    /\ candidates' = TargetIndex(scan_data')
    /\ step' = 0
    /\ pc' = "fva"
    /\ UNCHANGED <<heap, model, history, args, enforced, objective, reactions,
                   enforced_base, enforced_opt, scan_fluxes, step_data,
                   scan_solutions, scan_fva_results, fva_data, calls, outcome>>

-----------------------------------------------------------------------------
(* Lines 137-143: the FVA loop.                                            *)

FvaEnter ==
    /\ pc = "fva"
    /\ step < num_steps
    /\ heap' = [heap EXCEPT ![model] =
                  FixEnforced(@, enforced.id, objective.id, scan_fluxes[step + 1])]
    /\ history' = <<UndoBounds(heap[model], enforced.id), UndoObjective(heap[model])>>
    /\ pc' = "fva_call"
    /\ UNCHANGED <<model, args, enforced, objective, reactions, enforced_base,
                   enforced_opt, scan_fluxes, step, tables, calls, outcome>>

FvaCall ==
    /\ pc = "fva_call"
    /\ \E ok \in BOOLEAN :
         /\ calls' = Append(calls, Call("flux_variability_analysis", heap[model],
                                        enforced.id, candidates, ok))
         /\ IF ok
            THEN /\ \E fva_results \in [Elems(candidates) -> FvaIntervals] :
                      scan_fva_results' = Append(scan_fva_results, fva_results)
                 /\ heap' = [heap EXCEPT ![model] = WithExit(@, history)]
                 /\ history' = <<>>
                 /\ step' = step + 1
                 /\ pc' = "fva"
                 /\ UNCHANGED outcome
            ELSE /\ Raise("OptimizationError")
                 /\ UNCHANGED <<scan_fva_results, step>>
    /\ UNCHANGED <<model, args, enforced, objective, reactions, enforced_base,
                   enforced_opt, scan_fluxes, step_data, scan_solutions,
                   scan_data, candidates, fva_data>>

-----------------------------------------------------------------------------
(* Lines 145-166: the ranks, the sort and the bundle.                      *)

\* 1e-3 in units of 5e-4 (line 155)
Tightness == 2

RECURSIVE Insert(_, _)
Insert(x, s) ==
    IF s = <<>> THEN <<x>>
    ELSE IF x < s[1] THEN <<x>> \o s
    ELSE <<s[1]>> \o Insert(x, Tail(s))

\* Python's sorted(): ascending
RECURSIVE sorted(_)
sorted(s) == IF s = <<>> THEN <<>> ELSE Insert(s[1], sorted(Tail(s)))

\* the three checks counted independently of each other
rank_flat(min_fluxes, max_fluxes) ==
    (IF sorted(min_fluxes) = min_fluxes THEN 1 ELSE 0)
    + (IF SeqMin(max_fluxes) < SeqMax(min_fluxes) THEN 1 ELSE 0)
    + (IF SeqMax([i \in 1..Len(min_fluxes) |-> max_fluxes[i] - min_fluxes[i]])
          < Tightness
       THEN 1 ELSE 0)

\* lines 150-156
rank(min_fluxes, max_fluxes) ==
    IF sorted(min_fluxes) = min_fluxes
    THEN IF SeqMin(max_fluxes) < SeqMax(min_fluxes)
         THEN IF SeqMax([i \in 1..Len(min_fluxes) |-> max_fluxes[i] - min_fluxes[i]])
                   < Tightness
              THEN 3
              ELSE 2
         ELSE 1
    ELSE 0

\* lines 147-162: one row of the ranked table
FvaRow(min_fluxes, max_fluxes) ==
    [rank |-> rank(min_fluxes, max_fluxes), min |-> min_fluxes, max |-> max_fluxes]

\* whether row position i goes before row position j when sorting by
\* descending rank; equal ranks keep their order
Before(rows, i, j) == rows[i].rank > rows[j].rank \/ (rows[i].rank = rows[j].rank /\ i < j)

\* DataFrame.sort_values("rank", ascending=False): the permutation of the
\* row positions
RECURSIVE InsertPos(_, _, _)
InsertPos(rows, i, perm) ==
    IF perm = <<>> THEN <<i>>
    ELSE IF Before(rows, i, perm[1]) THEN <<i>> \o perm
    ELSE <<perm[1]>> \o InsertPos(rows, i, Tail(perm))

RECURSIVE SortPerm(_, _)
SortPerm(rows, n) ==
    IF n = 0 THEN <<>> ELSE InsertPos(rows, n, SortPerm(rows, n - 1))

sort_values(frame) ==
    LET perm == SortPerm(frame.rows, Len(frame.rows))
    IN  Frame([k \in 1..Len(perm) |-> frame.index[perm[k]]],
              [k \in 1..Len(perm) |-> frame.rows[perm[k]]])

RankTargets ==
    /\ pc = "fva"
    /\ step = num_steps
    /\ IF candidates = <<>>
       THEN \* the frame has no "rank" column to sort by
            /\ pc' = "failed"
            /\ outcome' = "KeyError"
            /\ UNCHANGED fva_data
       ELSE /\ fva_data' =
                 sort_values(
                   Frame(candidates,
                         [i \in 1..Len(candidates) |->
                            FvaRow([k \in 1..Len(scan_fva_results) |->
                                      scan_fva_results[k][candidates[i]].minimum],
                                   [k \in 1..Len(scan_fva_results) |->
                                      scan_fva_results[k][candidates[i]].maximum])]))
            /\ pc' = "returned"
            /\ outcome' = "returned"
    /\ UNCHANGED <<heap, model, history, args, enforced, objective, reactions,
                   enforced_base, enforced_opt, scan_fluxes, step, step_data,
                   scan_solutions, scan_data, candidates, scan_fva_results,
                   calls>>

\* the FSEOFResults bundle line 166 returns
Results ==
    [step |-> Frame([i \in 1..Len(step_data) |-> i - 1], step_data),
     scan |-> scan_data,
     fva  |-> fva_data]

Next ==
    \/ CopyModel
    \/ DefaultKwargs
    \/ StandardizeArgs
    \/ BaseEnter
    \/ BaseCall
    \/ OptEnter
    \/ OptCall
    \/ CheckRange
    \/ ScanEnter
    \/ ScanCall
    \/ CompileScan
    \/ FvaEnter
    \/ FvaCall
    \/ RankTargets

Spec == Init /\ [][Next]_vars

-----------------------------------------------------------------------------
(* Specifications that start fseof part-way, in a state a run with a       *)
(* suitable optimizer reaches, to drive one stage over a wider range of    *)
(* values than the whole-procedure specification can afford.  The run so   *)
(* far had enforced "E", objective "O" and every call successful.          *)

\* the two bound-finding calls, as the log records them
BoundCalls(dir) ==
    <<Call("optimizer", [CallerModel EXCEPT !.objective = "O"], "E", <<>>, TRUE),
      Call("optimizer", [CallerModel EXCEPT !.objective = "E", !.direction = dir],
           "E", <<>>, TRUE)>>

\* one successful call per step of a loop
StepCalls(fn, rxns, fluxes) ==
    [k \in 1..Len(fluxes) |->
       Call(fn, FixEnforced(CallerModel, "E", "O", fluxes[k]), "E", rxns, TRUE)]

\* lines 114-115
StepRows(fluxes, solutions) ==
    [k \in 1..Len(solutions) |->
       [enforced_flux |-> fluxes[k], objective_flux |-> solutions[k]["O"]]]

\* what lines 77-97 leave behind
AfterBounds(n, rxns, base, opt, dir, frac) ==
    /\ heap = [r \in {CallerRef, CopyRef} |-> CallerModel]
    /\ model = CopyRef
    /\ history = <<>>
    /\ num_steps = n
    /\ enforced = Str("E")
    /\ objective = Str("O")
    /\ enforced_direction = dir
    /\ enforced_frac_opt = frac
    /\ reactions = [some |-> TRUE, val |-> rxns]
    /\ enforced_base = base
    /\ enforced_opt = opt
    /\ outcome = "running"

ScanFluxes(n, base, opt, frac) ==
    linspace(Rat(base, 1), RatMul(frac, Rat(opt, 1)), n)

\* the state at line 100
AtRange(n, rxns, base, opt, dir, frac) ==
    /\ AfterBounds(n, rxns, base, opt, dir, frac)
    /\ pc = "range"
    /\ scan_fluxes = <<>>
    /\ step = 0
    /\ step_data = <<>>
    /\ scan_solutions = <<>>
    /\ scan_data = EmptyFrame
    /\ candidates = <<>>
    /\ scan_fva_results = <<>>
    /\ fva_data = EmptyFrame
    /\ calls = BoundCalls(dir)

\* the state at line 118, the scan loop done (base 0, optimum 1)
AtScanEnd(n, rxns, solutions) ==
    /\ AfterBounds(n, rxns, 0, 1, "max", DefaultFraction)
    /\ pc = "scan"
    /\ scan_fluxes = ScanFluxes(n, 0, 1, DefaultFraction)
    /\ step = n
    /\ step_data = StepRows(ScanFluxes(n, 0, 1, DefaultFraction), solutions)
    /\ scan_solutions = solutions
    /\ scan_data = EmptyFrame
    /\ candidates = <<>>
    /\ scan_fva_results = <<>>
    /\ fva_data = EmptyFrame
    /\ calls = BoundCalls("max")
                 \o StepCalls("optimizer", <<>>, ScanFluxes(n, 0, 1, DefaultFraction))

\* the state at line 145, the FVA loop done (base 0, optimum 1)
AtFvaEnd(n, rxns, solutions, fvas) ==
    /\ AfterBounds(n, rxns, 0, 1, "max", DefaultFraction)
    /\ pc = "fva"
    /\ scan_fluxes = ScanFluxes(n, 0, 1, DefaultFraction)
    /\ step = n
    /\ step_data = StepRows(ScanFluxes(n, 0, 1, DefaultFraction), solutions)
    /\ scan_solutions = solutions
    /\ scan_data = ScanTable(rxns, solutions)
    /\ candidates = TargetIndex(ScanTable(rxns, solutions))
    /\ scan_fva_results = fvas
    /\ fva_data = EmptyFrame
    /\ calls = BoundCalls("max")
                 \o StepCalls("optimizer", <<>>, ScanFluxes(n, 0, 1, DefaultFraction))
                 \o StepCalls("flux_variability_analysis",
                              TargetIndex(ScanTable(rxns, solutions)),
                              ScanFluxes(n, 0, 1, DefaultFraction))

\* SpecTarget: the scan of one candidate reaction, A, has recorded any
\* fluxes at all; lines 118-135 classify it
TargetFluxes == (-MaxFlux)..MaxFlux

InitTarget ==
    \E n \in 1..MaxTargetSteps :
      \E fl \in [1..n -> TargetFluxes] :
        AtScanEnd(n, <<Str("A")>>,
                  [k \in 1..n |-> [r \in {"A", "O"} |-> IF r = "A" THEN fl[k] ELSE 0]])

NextTarget == CompileScan

SpecTarget == InitTarget /\ [][NextTarget]_vars

\* SpecRank: A is the one target (its flux rose from 0 to 1) and FVA has
\* reported any bounds at all for it; lines 145-166 rank it
RankFluxes == 0..MaxFva

InitRank ==
    \E n \in 2..MaxRankSteps :
      \E lo \in [1..n -> RankFluxes], hi \in [1..n -> RankFluxes] :
        AtFvaEnd(n, <<Str("A")>>,
                 [k \in 1..n |-> [r \in {"A", "O"} |-> IF k = 1 THEN 0 ELSE 1]],
                 [k \in 1..n |-> [r \in {"A"} |-> [minimum |-> lo[k], maximum |-> hi[k]]]])

NextRank == RankTargets

SpecRank == InitRank /\ [][NextRank]_vars

\* SpecScan: the bound-finding calls have reported any two fluxes; lines
\* 99-166 run from there with A the one candidate
BoundFluxes == (-MaxBound)..MaxBound

ScanFractions == {Rat(1, 2), Rat(9, 10), Rat(1, 1)}

InitScan ==
    \E n \in 1..MaxScanSteps, base \in BoundFluxes, opt \in BoundFluxes,
       frac \in ScanFractions :
        AtRange(n, <<Str("A")>>, base, opt,
                IF opt >= base THEN "max" ELSE "min", frac)

NextScan ==
    \/ CheckRange
    \/ ScanEnter
    \/ ScanCall
    \/ CompileScan
    \/ FvaEnter
    \/ FvaCall
    \/ RankTargets

SpecScan == InitScan /\ [][NextScan]_vars

-----------------------------------------------------------------------------
(* Properties of the whole procedure.                                      *)

Last(s) == s[Len(s)]

InBlock == pc \in {"base_call", "opt_call", "scan_call", "fva_call"}

CallsTo(fn) == {i \in 1..Len(calls) : calls[i].fn = fn}

\* the reactions the scan table marks as targets
Targets == {scan_data.index[i] : i \in {j \in 1..Len(scan_data.index) : scan_data.rows[j].target}}

\* C3: once both bound-finding calls have succeeded with enforced_opt equal
\* to enforced_base and the range check has run, fseof has failed with the
\* ValueError, the call log holds exactly those two optimizer calls, and no
\* scan step, no FVA step and no table exists.
C3_EmptyRangeFailsFast ==
    (/\ Len(calls) >= 2
     /\ calls[1].ok
     /\ calls[2].ok
     /\ enforced_opt = enforced_base
     /\ pc # "range")
    => /\ pc = "failed"
       /\ outcome = "ValueError"
       /\ Len(calls) = 2
       /\ CallsTo("flux_variability_analysis") = {}
       /\ step_data = <<>>
       /\ scan_solutions = <<>>
       /\ fva_data = EmptyFrame

C3_Witness ==
    /\ pc = "failed"
    /\ outcome = "ValueError"
    /\ enforced_base = 1
    /\ enforced_opt = 1
    /\ Len(calls) = 2

\* C4: outside the four `with model:` blocks (before each bound-finding
\* block, before every scan step and FVA step, and after fseof has returned
\* or failed) the working copy has the objective, direction and bounds it
\* had before the scan began, and no undo entry is pending.
C4_BlocksReverted ==
    (model = CopyRef /\ ~InBlock)
    => /\ heap[model] = CallerModel
       /\ history = <<>>

C4_Witness ==
    /\ pc = "failed"
    /\ calls # <<>>
    /\ ~Last(calls).ok
    /\ Last(calls).fn = "flux_variability_analysis"
    /\ Last(calls).bounds # CallerModel.bounds[enforced.id]
    /\ Last(calls).objective # CallerModel.objective
    /\ heap[model] = CallerModel

\* C5: when the caller passes reactions=None, the candidates that lines
\* 80-81 choose are exactly the non-boundary, functional reactions of the
\* model other than the enforced and the objective reaction.
C5_DefaultExcludesEnforcedAndObjective ==
    [][(pc = "defaults" /\ ~reactions.some)
       => {r.id : r \in Elems(reactions'.val)} =
            {r \in Elems(Reactions) :
                /\ r \notin {enforced.id, objective.id}
                /\ ~Boundary(r)
                /\ Functional(heap[model], r)}]_vars

\* C7: a failed call is the last call fseof makes (no retry, no later
\* call) and leaves fseof failed with that error; fseof returns only after
\* 2 + num_steps successful optimizer calls and num_steps successful FVA
\* calls, and a failed run has no ranked table.
C7_FailureAborts ==
    /\ \A i \in 1..(Len(calls) - 1) : calls[i].ok
    /\ (calls # <<>> /\ ~Last(calls).ok)
         => (pc = "failed" /\ outcome = "OptimizationError")
    /\ (pc = "failed") => (outcome \notin {"running", "returned"} /\ fva_data = EmptyFrame)
    /\ (pc = "returned" \/ outcome = "returned")
         => /\ pc = "returned"
            /\ outcome = "returned"
            /\ \A i \in 1..Len(calls) : calls[i].ok
            /\ Cardinality(CallsTo("optimizer")) = 2 + num_steps
            /\ Cardinality(CallsTo("flux_variability_analysis")) = num_steps

C7_Witness ==
    /\ pc = "failed"
    /\ Len(calls) = 2 + num_steps + 2
    /\ ~Last(calls).ok
    /\ Last(calls).fn = "flux_variability_analysis"

\* C8: the caller's model object never changes: at every point of every
\* run its objective, direction and bounds are those it was passed with.
C8_CallerModelUntouched == heap[CallerRef] = CallerModel

C8_Witness ==
    /\ pc = "fva_call"
    /\ model = CopyRef
    /\ heap[CopyRef].bounds[enforced.id] # CallerModel.bounds[enforced.id]
    /\ heap[CopyRef].objective # CallerModel.objective
    /\ heap[CallerRef] = CallerModel

\* C10: in a returned bundle the ranked table holds exactly the reactions
\* the scan table marks as targets, each once, in order of non-increasing
\* rank; and FVA was called once per step, in step order, for exactly those
\* reactions, with the enforced bounds of the same step of the scan.
C10_RankedTableIsTargets ==
    (pc = "returned")
    => /\ Elems(fva_data.index) = Targets
       /\ Len(fva_data.index) = Cardinality(Targets)
       /\ Len(fva_data.rows) = Len(fva_data.index)
       /\ \A i \in 1..(Len(fva_data.rows) - 1) :
             fva_data.rows[i].rank >= fva_data.rows[i + 1].rank
       /\ \A k \in 1..num_steps :
             /\ calls[2 + num_steps + k].fn = "flux_variability_analysis"
             /\ Elems(calls[2 + num_steps + k].rxns) = Targets
             /\ calls[2 + num_steps + k].bounds = calls[2 + k].bounds
             /\ calls[2 + k].bounds = <<step_data[k].enforced_flux, step_data[k].enforced_flux>>

C10_Witness ==
    /\ pc = "returned"
    /\ Len(fva_data.index) = 2
    /\ fva_data.index # candidates
    /\ fva_data.rows[1].rank > fva_data.rows[2].rank


-----------------------------------------------------------------------------
(* Properties of the stages.                                               *)

\* the fluxes the scan recorded for row i of the scan table, in step order
Recorded(i) == [k \in 1..Len(scan_solutions) |-> scan_solutions[k][scan_data.index[i]]]

\* the least and the greatest element of a non-empty sequence
Least(f) == CHOOSE x \in Elems(f) : \A y \in Elems(f) : x <= y

Greatest(f) == CHOOSE x \in Elems(f) : \A y \in Elems(f) : x >= y

ScanCompiled == pc = "fva" /\ step = 0

\* C1: in the compiled scan table every row's target flag is true exactly
\* when vmax * vmin >= 0 and |vmax| > |flux at step 0|, vmin and vmax being
\* the least and greatest flux recorded for the reaction over all steps;
\* a reaction with a positive flux at one step and a negative flux at
\* another is not a target.
C1_TargetRule ==
    ScanCompiled
    => \A i \in 1..Len(scan_data.rows) :
         LET f   == Recorded(i)
             row == scan_data.rows[i]
         IN  /\ row.vmin = Least(f)
             /\ row.vmax = Greatest(f)
             /\ row.target <=> (/\ Greatest(f) * Least(f) >= 0
                                /\ Abs(Greatest(f)) > Abs(f[1]))
             /\ (\E j, k \in 1..Len(f) : f[j] > 0 /\ f[k] < 0) => ~row.target

C1_Witness ==
    /\ ScanCompiled
    /\ Len(scan_data.rows) = 1
    /\ Recorded(1) = <<1, -2, 3>>
    /\ ~scan_data.rows[1].target

\* C9: in the compiled scan table, a row whose recorded fluxes are all >= 0
\* or all <= 0 is a target exactly when some step's flux magnitude exceeds
\* the magnitude of the step-0 flux.
C9_MagnitudeGrowthEitherDirection ==
    ScanCompiled
    => \A i \in 1..Len(scan_data.rows) :
         LET f == Recorded(i)
         IN  ((\A k \in 1..Len(f) : f[k] >= 0) \/ (\A k \in 1..Len(f) : f[k] <= 0))
             => (scan_data.rows[i].target
                   <=> \E k \in 1..Len(f) : Abs(f[k]) > Abs(f[1]))

\* the per-step FVA bounds of the reaction in row i of the ranked table
Minima(i) == [k \in 1..Len(scan_fva_results) |->
                scan_fva_results[k][fva_data.index[i]].minimum]

Maxima(i) == [k \in 1..Len(scan_fva_results) |->
                scan_fva_results[k][fva_data.index[i]].maximum]

\* check 1: the minima never decrease from a step to a later one
Check1(lo) == \A j, k \in 1..Len(lo) : j < k => lo[j] <= lo[k]

\* check 2: the smallest maximum is below the largest minimum
Check2(lo, hi) == \E j, k \in 1..Len(lo) : hi[j] < lo[k]

\* check 3: every step's width is below the threshold
Check3(lo, hi) == \A k \in 1..Len(lo) : hi[k] - lo[k] < Tightness

\* C2: every row of the ranked table has the rank given by the first check
\* it fails, taking the checks in the order 1, 2, 3: 0 when check 1 fails
\* (whatever checks 2 and 3 give), 1 when check 1 passes and check 2 fails,
\* 2 when only check 3 fails, 3 when all pass.
C2_RankCountsNestedChecks ==
    (pc = "returned")
    => \A i \in 1..Len(fva_data.rows) :
         LET lo == Minima(i)
             hi == Maxima(i)
             r  == fva_data.rows[i].rank
         IN  /\ r \in 0..3
             /\ r = (IF ~Check1(lo) THEN 0
                     ELSE IF ~Check2(lo, hi) THEN 1
                     ELSE IF ~Check3(lo, hi) THEN 2
                     ELSE 3)
             /\ fva_data.rows[i].min = lo
             /\ fva_data.rows[i].max = hi

C2_Witness ==
    /\ pc = "returned"
    /\ Len(fva_data.rows) = 1
    /\ fva_data.rows[1].rank = 0
    /\ ~Check1(Minima(1))
    /\ Check2(Minima(1), Maxima(1))
    /\ Check3(Minima(1), Maxima(1))

\* the enforced fluxes of the step table, in row order
Enforced(t) == [k \in 1..Len(t.rows) |-> t.rows[k].enforced_flux]

ScanDone == pc \in {"fva", "fva_call", "returned"}

\* C6: once the scan loop is done, and so in every returned bundle, the
\* step table has num_steps rows indexed 0..num_steps-1 and its first
\* enforced flux is enforced_base; with two or more steps the last is
\* enforced_frac_opt * enforced_opt, consecutive steps differ by one same
\* amount, and the fluxes never decrease when enforced_frac_opt *
\* enforced_opt >= enforced_base.
C6_StepTableInterpolates ==
    ScanDone
    => LET t    == Results.step
           v    == Enforced(Results.step)
           stop == RatMul(enforced_frac_opt, Rat(enforced_opt, 1))
       IN  /\ Len(t.rows) = num_steps
           /\ t.index = [k \in 1..num_steps |-> k - 1]
           /\ v[1] = Rat(enforced_base, 1)
           /\ num_steps >= 2
                => /\ v[num_steps] = stop
                   /\ \A k \in 1..(num_steps - 2) :
                        RatSub(v[k + 2], v[k + 1]) = RatSub(v[k + 1], v[k])
                   /\ RatLeq(Rat(enforced_base, 1), stop)
                        => \A k \in 1..(num_steps - 1) : RatLeq(v[k], v[k + 1])

C6_Witness ==
    /\ pc = "returned"
    /\ num_steps = 3
    /\ enforced_base = 0
    /\ enforced_opt = 1
    /\ Enforced(Results.step) = <<Rat(0, 1), Rat(1, 2), Rat(1, 1)>>

=============================================================================
